---- MODULE Spec2Model ----
(***************************************************************************)
(* Prompt Studio: the file-backed category store (storage.py), the data    *)
(* models (models.py) and the PUT / backup handlers (app.py).              *)
(*                                                                         *)
(* A path is a sequence of name atoms; ".json" and ".backup" are the       *)
(* extension atoms.  A file's text is a sequence of JSON tokens, so that   *)
(* truncation, partial writes and writes over a longer file are texts of   *)
(* their own which json.load may reject.                                   *)
(***************************************************************************)
EXTENDS Integers, Sequences, FiniteSets, TLC

VARIABLES files, now, ops, pre, lastOp, hist, kind,
          content, variables, rendering,
          pc, preimage, submitted, lastWriter

vars == <<files, now, ops, pre, lastOp, hist, kind,
          content, variables, rendering,
          pc, preimage, submitted, lastWriter>>

storeVars == <<files, now, ops, pre, lastOp, hist, kind>>
renderVars == <<content, variables, rendering>>
raceVars == <<pc, preimage, submitted, lastWriter>>

(***************************************************************************)
(* Bounds                                                                  *)
(***************************************************************************)
MaxOps == 2
MaxTime == 2
MaxLen == 4

(***************************************************************************)
(* Sequence helpers                                                        *)
(***************************************************************************)
Last(s) == s[Len(s)]

Front(s) == SubSeq(s, 1, Len(s) - 1)

Range(s) == {s[i] : i \in 1..Len(s)}

RECURSIVE Flatten(_)
Flatten(ss) == IF ss = <<>> THEN <<>> ELSE Head(ss) \o Flatten(Tail(ss))

(***************************************************************************)
(* Paths                                                                   *)
(***************************************************************************)
Stamps == <<"20240101_000001", "20240101_000002", "20240101_000003",
            "20240101_000004", "20240101_000005", "20240101_000006">>

\* datetime.now().strftime("%Y%m%d_%H%M%S")
Strftime(t) == Stamps[t]

\* code-point order of the atoms, as str comparison sees them
AtomOrder == <<".backup", ".json">> \o Stamps \o <<"_", "a", "b">>

AtomRank(x) == CHOOSE i \in 1..Len(AtomOrder) : AtomOrder[i] = x

ExtAtoms == {".json", ".backup"}

\* self.prompts_dir / f"{category}.json"
get_category_file_path(category) == category \o <<".json">>

\* Path.with_suffix: the last suffix of the name is replaced
with_suffix(path, suffix) ==
    IF Len(path) > 1 /\ Last(path) \in ExtAtoms
    THEN Front(path) \o suffix
    ELSE path \o suffix

\* file_path.with_suffix('.json.backup')
OverwriteBackupPath(category) ==
    with_suffix(get_category_file_path(category), <<".json", ".backup">>)

\* file_path.with_name(f"{category}_{timestamp}.backup.json")
TimestampedBackupPath(category, timestamp) ==
    category \o <<"_", timestamp, ".backup", ".json">>

\* Path.stem
Stem(path) == IF Len(path) > 1 /\ Last(path) \in ExtAtoms THEN Front(path) ELSE path

\* glob("*.json")
GlobJson(fs) == {p \in DOMAIN fs : Len(p) > 1 /\ Last(p) = ".json"}

\* str.__lt__ on names
RECURSIVE StrLess(_, _)
StrLess(x, y) ==
    IF y = <<>> THEN FALSE
    ELSE IF x = <<>> THEN TRUE
    ELSE IF Head(x) = Head(y) THEN StrLess(Tail(x), Tail(y))
    ELSE AtomRank(Head(x)) < AtomRank(Head(y))

\* sorted(list)
RECURSIVE Sorted(_)
Sorted(S) ==
    IF S = {} THEN <<>>
    ELSE LET m == CHOOSE x \in S : \A y \in S \ {x} : StrLess(x, y)
         IN <<m>> \o Sorted(S \ {m})

(***************************************************************************)
(* JSON values and the text of a category file                             *)
(***************************************************************************)
JNull == [t |-> "null"]
JStr(x) == [t |-> "str", s |-> x]
JNum(x) == [t |-> "num", n |-> x]
JArr(x) == [t |-> "arr", a |-> x]
JObj(x) == [t |-> "obj", m |-> x]

LBrace == [tok |-> "{"]
RBrace == [tok |-> "}"]
Member(k, v) == [tok |-> "member", key |-> k, val |-> v]
OpenMember(k) == [tok |-> "open", key |-> k]

\* Optional[...] values: <<>> is None, <<x>> is x
None == <<>>
Some(x) == <<x>>

OptStrToJson(o) == IF o = None THEN JNull ELSE JStr(o[1])
OptIntToJson(o) == IF o = None THEN JNull ELSE JNum(o[1])

\* storage.py 112-118: the dict written for one template
TemplateToJson(template) ==
    JObj(<< <<"content", JStr(template.content)>>,
            <<"description", OptStrToJson(template.description)>>,
            <<"variables", JArr([i \in 1..Len(template.variables) |-> JStr(template.variables[i])])>>,
            <<"model", OptStrToJson(template.model)>>,
            <<"max_tokens", OptIntToJson(template.max_tokens)>> >>)

\* storage.py 104-122: data built from the category, then json.dump
Serialize(prompt_category) ==
    << LBrace,
       Member("version", JStr(prompt_category.version)),
       Member("category", JStr(prompt_category.category)),
       Member("description", JStr(prompt_category.description)),
       OpenMember("templates") >>
    \o [i \in 1..Len(prompt_category.templates) |->
          Member(prompt_category.templates[i].name,
                 TemplateToJson(prompt_category.templates[i].template))]
    \o << RBrace, RBrace >>

(***************************************************************************)
(* json.load                                                               *)
(***************************************************************************)
BadScan == [ok |-> FALSE, members |-> <<>>, next |-> 0]

\* members of one object, from position i up to its closing brace
RECURSIVE ScanMembers(_, _)
ScanMembers(text, i) ==
    IF i > Len(text) THEN BadScan
    ELSE IF text[i].tok = "}" THEN [ok |-> TRUE, members |-> <<>>, next |-> i + 1]
    ELSE IF text[i].tok = "member" THEN
        LET rest == ScanMembers(text, i + 1)
        IN IF rest.ok
           THEN [rest EXCEPT !.members = << <<text[i].key, text[i].val>> >> \o @]
           ELSE BadScan
    ELSE IF text[i].tok = "open" THEN
        LET inner == ScanMembers(text, i + 1)
        IN IF ~inner.ok THEN BadScan
           ELSE LET rest == ScanMembers(text, inner.next)
                IN IF rest.ok
                   THEN [rest EXCEPT !.members =
                            << <<text[i].key, JObj(inner.members)>> >> \o @]
                   ELSE BadScan
    ELSE BadScan

\* json.load(f): the document, or JSONDecodeError (empty, cut short, extra data)
json_load(text) ==
    IF text = <<>> \/ text[1].tok # "{" THEN [ok |-> FALSE]
    ELSE LET r == ScanMembers(text, 2)
         IN IF r.ok /\ r.next = Len(text) + 1
            THEN [ok |-> TRUE, data |-> r.members]
            ELSE [ok |-> FALSE]

\* dict: a later duplicate key replaces an earlier one
HasKey(members, k) == \E i \in 1..Len(members) : members[i][1] = k

DictGet(members, k, default) ==
    IF HasKey(members, k)
    THEN LET i == CHOOSE j \in 1..Len(members) :
                     members[j][1] = k /\ \A h \in (j+1)..Len(members) : members[h][1] # k
         IN members[i][2]
    ELSE default

\* dict.items(): keys in first-insertion order, each with its last value
RECURSIVE DictItems(_, _)
DictItems(members, i) ==
    IF i > Len(members) THEN <<>>
    ELSE IF \E h \in 1..(i-1) : members[h][1] = members[i][1]
         THEN DictItems(members, i + 1)
         ELSE << <<members[i][1], DictGet(members, members[i][1], JNull)>> >>
              \o DictItems(members, i + 1)

(***************************************************************************)
(* models.py                                                               *)
(***************************************************************************)
DefaultModel == "claude-3-5-sonnet-20241022"
DefaultMaxTokens == 1000
DefaultVersion == "1.0.0"

IsOptStr(j) == j.t \in {"null", "str"}
IsOptInt(j) == j.t \in {"null", "num"}
IsStrList(j) == j.t = "arr" /\ \A i \in 1..Len(j.a) : j.a[i].t = "str"

OptFromJson(j) == IF j.t = "null" THEN None ELSE IF j.t = "str" THEN Some(j.s) ELSE Some(j.n)

\* PromptTemplate(**template_data): validation and defaults
PromptTemplate(template_data) ==
    IF template_data.t # "obj" THEN [ok |-> FALSE]
    ELSE LET m == template_data.m
             c == DictGet(m, "content", JNull)
             d == DictGet(m, "description", JStr(""))
             v == DictGet(m, "variables", JArr(<<>>))
             md == DictGet(m, "model", JStr(DefaultModel))
             mt == DictGet(m, "max_tokens", JNum(DefaultMaxTokens))
         IN IF c.t = "str" /\ IsOptStr(d) /\ IsStrList(v) /\ IsOptStr(md) /\ IsOptInt(mt)
            THEN [ok |-> TRUE,
                  value |-> [content |-> c.s,
                             description |-> OptFromJson(d),
                             variables |-> [i \in 1..Len(v.a) |-> v.a[i].s],
                             model |-> OptFromJson(md),
                             max_tokens |-> OptFromJson(mt)]]
            ELSE [ok |-> FALSE]

\* PromptCategory(version=..., category=..., description=..., templates=...)
PromptCategory(version, category, description, templates) ==
    IF version.t = "str" /\ category.t = "str" /\ description.t = "str"
    THEN [ok |-> TRUE,
          value |-> [version |-> version.s, category |-> category.s,
                     description |-> description.s, templates |-> templates]]
    ELSE [ok |-> FALSE]

(***************************************************************************)
(* storage.py: get_category                                                *)
(***************************************************************************)
NoCategory == [none |-> TRUE]

\* variant: the category field is taken from the storage key, not from the file
CategoryFromDataKeyed(category, data) ==
    LET tj == DictGet(data, "templates", JObj(<<>>))
    IN IF tj.t # "obj" THEN [ok |-> FALSE]
       ELSE LET items == DictItems(tj.m, 1)
                built == [i \in 1..Len(items) |-> PromptTemplate(items[i][2])]
            IN IF \E i \in 1..Len(items) : ~built[i].ok THEN [ok |-> FALSE]
               ELSE PromptCategory(
                       DictGet(data, "version", JStr(DefaultVersion)),
                       JStr(category),
                       DictGet(data, "description", JStr("")),
                       [i \in 1..Len(items) |->
                           [name |-> items[i][1], template |-> built[i].value]])

\* storage.py 62-72: the category built from the parsed document
CategoryFromData(category, data) ==
    LET tj == DictGet(data, "templates", JObj(<<>>))
    IN IF tj.t # "obj" THEN [ok |-> FALSE]
       ELSE LET items == DictItems(tj.m, 1)
                built == [i \in 1..Len(items) |-> PromptTemplate(items[i][2])]
            IN IF \E i \in 1..Len(items) : ~built[i].ok THEN [ok |-> FALSE]
               ELSE PromptCategory(
                       DictGet(data, "version", JStr(DefaultVersion)),
                       DictGet(data, "category", JStr(category)),
                       DictGet(data, "description", JStr("")),
                       [i \in 1..Len(items) |->
                           [name |-> items[i][1], template |-> built[i].value]])

\* variant: a file that does not parse loads as an empty category
LoadFromTextLenient(category, text) ==
    LET doc == json_load(text)
    IN IF ~doc.ok
       THEN [version |-> DefaultVersion, category |-> category,
             description |-> "", templates |-> <<>>]
       ELSE LET c == CategoryFromData(category, doc.data)
            IN IF c.ok THEN c.value ELSE NoCategory

\* storage.py 58-79: any exception while reading or building gives None
LoadFromText(category, text) ==
    LET doc == json_load(text)
    IN IF ~doc.ok THEN NoCategory
       ELSE LET c == CategoryFromData(category, doc.data)
            IN IF c.ok THEN c.value ELSE NoCategory

get_category(fs, category) ==
    LET file_path == get_category_file_path(category)
    IN IF file_path \notin DOMAIN fs THEN NoCategory
       ELSE LoadFromText(category, fs[file_path])

(***************************************************************************)
(* Requests: category names and submitted categories                       *)
(***************************************************************************)
NameA == <<"a">>
NameB == <<"b">>
\* a category name that is spelled like a timestamped backup of "a"
NameBk == <<"a", "_", Strftime(1), ".backup">>

\* the names requests are addressed to
Names == {NameA, NameBk}

TplFull == [content |-> <<"$", "a">>, description |-> Some("d"),
            variables |-> <<"a">>, model |-> Some("m"), max_tokens |-> Some(5)]

TplBare == [content |-> <<"$", "$", "a", "$", "b">>, description |-> None,
            variables |-> <<>>, model |-> None, max_tokens |-> None]

\* two templates, optional fields None in one, category field unlike any name
CatTwo == [version |-> "2", category |-> NameB, description |-> "",
           templates |-> << [name |-> "t2", template |-> TplBare],
                            [name |-> "t1", template |-> TplFull] >>]

\* no templates
CatEmpty == [version |-> "", category |-> NameA, description |-> "none",
             templates |-> <<>>]

Categories == {CatEmpty, CatTwo}

\* a hand-written file: only the templates member, one template with content only
HandWritten ==
    << LBrace, OpenMember("templates"),
       Member("t1", JObj(<< <<"content", JStr(<<"$", "{", "a", "}">>)>> >>)),
       RBrace, RBrace >>

EmptyDir == [p \in {} |-> <<>>]

InitialDirs ==
    { EmptyDir,
      [p \in {get_category_file_path(NameA), get_category_file_path(NameB)} |->
          IF p = get_category_file_path(NameA) THEN HandWritten ELSE Serialize(CatEmpty)] }

(***************************************************************************)
(* File operations                                                         *)
(***************************************************************************)
\* open(path, 'w') ... write(text) ... close, on a path no one else has open
WriteFile(fs, path, text) ==
    [p \in DOMAIN fs \cup {path} |-> IF p = path THEN text ELSE fs[p]]

\* variant: dst is opened for writing and nothing is written to it
CopyFileEmpty(fs, src, dst) == WriteFile(fs, dst, <<>>)

\* with open(src,'r') ... open(dst,'w') ... dst.write(src.read())
CopyFile(fs, src, dst) == WriteFile(fs, dst, fs[src])

(***************************************************************************)
(* storage.py: list_categories, save_category, backup_category,            *)
(* get_all_prompts                                                         *)
(***************************************************************************)
list_categories(fs) == Sorted({Stem(p) : p \in GlobJson(fs)})

SaveFaults == {"none", "backup", "open", "dump"}

\* variant: the backup copy is taken after the new text is written
save_category_backup_after(fs, category, prompt_category, fault, cut) ==
    LET file_path == get_category_file_path(category)
        backup_path == with_suffix(file_path, <<".json", ".backup">>)
        existed == file_path \in DOMAIN fs
        text == Serialize(prompt_category)
    IN IF fault = "open" THEN [fs |-> fs, ok |-> FALSE]
       ELSE IF fault = "dump"
       THEN [fs |-> WriteFile(fs, file_path, SubSeq(text, 1, cut)), ok |-> FALSE]
       ELSE LET written == WriteFile(fs, file_path, text)
            IN IF existed /\ fault = "backup" THEN [fs |-> written, ok |-> FALSE]
               ELSE [fs |-> IF existed THEN CopyFile(written, file_path, backup_path)
                            ELSE written,
                     ok |-> TRUE]

\* variant: no backup copy is taken
save_category_no_backup(fs, category, prompt_category, fault, cut) ==
    LET file_path == get_category_file_path(category)
        text == Serialize(prompt_category)
    IN IF fault \in {"backup", "open"} THEN [fs |-> fs, ok |-> FALSE]
       ELSE IF fault = "dump"
       THEN [fs |-> WriteFile(fs, file_path, SubSeq(text, 1, cut)), ok |-> FALSE]
       ELSE [fs |-> WriteFile(fs, file_path, text), ok |-> TRUE]

\* fault: the step that raises; cut: tokens json.dump got out before raising
save_category(fs, category, prompt_category, fault, cut) ==
    LET file_path == get_category_file_path(category)
        backup_path == with_suffix(file_path, <<".json", ".backup">>)
        existed == file_path \in DOMAIN fs
        text == Serialize(prompt_category)
    IN IF existed /\ fault = "backup" THEN [fs |-> fs, ok |-> FALSE]
       ELSE LET backed == IF existed THEN CopyFile(fs, file_path, backup_path) ELSE fs
            IN IF fault = "open" THEN [fs |-> backed, ok |-> FALSE]
               ELSE IF fault = "dump"
                    THEN [fs |-> WriteFile(backed, file_path, SubSeq(text, 1, cut)),
                          ok |-> FALSE]
                    ELSE [fs |-> WriteFile(backed, file_path, text), ok |-> TRUE]

BackupFaults == {"none", "open"}

backup_category(fs, category, t, fault) ==
    LET file_path == get_category_file_path(category)
        backup_path == TimestampedBackupPath(category, Strftime(t))
    IN IF file_path \notin DOMAIN fs THEN [fs |-> fs, ok |-> FALSE]
       ELSE IF fault = "open" THEN [fs |-> fs, ok |-> FALSE]
       ELSE [fs |-> CopyFile(fs, file_path, backup_path), ok |-> TRUE]

RECURSIVE SumLens(_)
SumLens(entries) ==
    IF entries = <<>> THEN 0
    ELSE Head(entries).template_count + SumLens(Tail(entries))

\* storage.py 141-152: one summary entry per category that loads
RECURSIVE SummaryEntries(_, _)
SummaryEntries(fs, names) ==
    IF names = <<>> THEN <<>>
    ELSE LET category == get_category(fs, Head(names))
         IN (IF category = NoCategory THEN <<>>
             ELSE << [name |-> Head(names),
                      version |-> category.version,
                      description |-> category.description,
                      template_count |-> Len(category.templates),
                      template_names |-> [i \in 1..Len(category.templates) |->
                                             category.templates[i].name]] >>)
            \o SummaryEntries(fs, Tail(names))

get_all_prompts(fs) ==
    LET all_prompts == SummaryEntries(fs, list_categories(fs))
    IN [categories |-> all_prompts,
        total_categories |-> Len(all_prompts),
        total_templates |-> SumLens(all_prompts)]

(***************************************************************************)
(* string.Template as storage.py uses it (get_identifiers, safe_substitute)*)
(* Text is a sequence of characters.                                       *)
(***************************************************************************)
Letters == {"a", "b", "_"}
Digits == {"0", "1", "2", "3", "4", "5", "6", "7", "8", "9"}

IdStart(c) == c \in Letters
IdChar(c) == c \in Letters \cup Digits

\* end of the greedy run [_a-z0-9]* that starts at position i
RECURSIVE IdEnd(_, _)
IdEnd(text, i) ==
    IF i <= Len(text) /\ IdChar(text[i]) THEN IdEnd(text, i + 1) ELSE i - 1

\* the match of Template.pattern at the "$" in position i
MatchAt(text, i) ==
    IF i + 1 <= Len(text) /\ text[i + 1] = "$"
    THEN [group |-> "escaped", id |-> <<>>, len |-> 2]
    ELSE IF i + 1 <= Len(text) /\ IdStart(text[i + 1])
    THEN LET e == IdEnd(text, i + 1)
         IN [group |-> "named", id |-> SubSeq(text, i + 1, e), len |-> e - i + 1]
    ELSE IF i + 2 <= Len(text) /\ text[i + 1] = "{" /\ IdStart(text[i + 2])
            /\ IdEnd(text, i + 2) + 1 <= Len(text)
            /\ text[IdEnd(text, i + 2) + 1] = "}"
    THEN LET e == IdEnd(text, i + 2)
         IN [group |-> "braced", id |-> SubSeq(text, i + 2, e), len |-> e - i + 2]
    ELSE [group |-> "invalid", id |-> <<>>, len |-> 1]

\* pattern.finditer(template): the matches, left to right, with what lies between
RECURSIVE FindIter(_, _)
FindIter(text, i) ==
    IF i > Len(text) THEN <<>>
    ELSE IF text[i] = "$"
    THEN LET mo == MatchAt(text, i)
         IN << [group |-> mo.group, id |-> mo.id, len |-> mo.len,
                 raw |-> SubSeq(text, i, i + mo.len - 1)] >>
            \o FindIter(text, i + mo.len)
    ELSE << [group |-> "text", id |-> <<>>, len |-> 1, raw |-> <<text[i]>>] >>
         \o FindIter(text, i + 1)

\* Template.get_identifiers(): each identifier once, in order of first match
RECURSIVE GetIdentifiers(_, _)
GetIdentifiers(matches, ids) ==
    IF matches = <<>> THEN ids
    ELSE LET mo == Head(matches)
         IN IF mo.group \in {"named", "braced"} /\ mo.id \notin Range(ids)
            THEN GetIdentifiers(Tail(matches), Append(ids, mo.id))
            ELSE GetIdentifiers(Tail(matches), ids)

get_identifiers(text) == GetIdentifiers(FindIter(text, 1), <<>>)

DigitOf == <<"0", "1", "2", "3", "4", "5", "6", "7", "8", "9">>

\* str(value) for the values a request carries
StrVal(x) == [t |-> "str", s |-> x]
IntVal(x) == [t |-> "int", n |-> x]
Str(value) == IF value.t = "str" THEN value.s ELSE <<DigitOf[value.n + 1]>>

\* variant: a placeholder without a value is blanked
ConvertBlanking(mo, mapping) ==
    IF mo.group \in {"named", "braced"}
    THEN IF mo.id \in DOMAIN mapping THEN Str(mapping[mo.id]) ELSE <<>>
    ELSE IF mo.group = "escaped" THEN <<"$">>
    ELSE mo.raw

\* convert(mo) of safe_substitute
Convert(mo, mapping) ==
    IF mo.group \in {"named", "braced"}
    THEN IF mo.id \in DOMAIN mapping THEN Str(mapping[mo.id]) ELSE mo.raw
    ELSE IF mo.group = "escaped" THEN <<"$">>
    ELSE mo.raw

safe_substitute(text, mapping) ==
    LET matches == FindIter(text, 1)
    IN Flatten([i \in 1..Len(matches) |-> Convert(matches[i], mapping)])

\* list(set): some order of the elements, each once
ListOfSet(S) == {q \in [1..Cardinality(S) -> S] : Range(q) = S}

\* storage.py 186-206: the results list(set(...)) allows
RenderResults(text, mapping) ==
    LET template_vars == Range(get_identifiers(text))
        provided_vars == DOMAIN mapping
    IN { [success |-> TRUE,
          rendered_prompt |-> safe_substitute(text, mapping),
          missing_variables |-> mv,
          template_variables |-> tv,
          provided_variables |-> pv] :
            mv \in ListOfSet(template_vars \ provided_vars),
            tv \in ListOfSet(template_vars),
            pv \in ListOfSet(provided_vars) }

TemplateNames(category) == {category.templates[i].name : i \in 1..Len(category.templates)}

TemplateNamed(category, template_name) ==
    LET i == CHOOSE j \in 1..Len(category.templates) :
                 category.templates[j].name = template_name
    IN category.templates[i].template

\* storage.py 172-213
test_prompt_rendering(fs, category, template_name, mapping) ==
    LET prompt_category == get_category(fs, category)
    IN IF prompt_category = NoCategory
       THEN {[success |-> FALSE, error |-> "Category not found"]}
       ELSE IF template_name \notin TemplateNames(prompt_category)
       THEN {[success |-> FALSE, error |-> "Template not found in category"]}
       ELSE RenderResults(TemplateNamed(prompt_category, template_name).content, mapping)

(***************************************************************************)
(* The store under sequential requests                                     *)
(***************************************************************************)
NoRendering == [success |-> FALSE, error |-> "not rendered"]
NoMapping == [k \in {} |-> StrVal(<<>>)]

Writers == {1, 2}

RenderIdle ==
    /\ content = <<>>
    /\ variables = NoMapping
    /\ rendering = NoRendering

RaceIdle ==
    /\ pc = [w \in Writers |-> "idle"]
    /\ preimage = [w \in Writers |-> <<>>]
    /\ submitted = [w \in Writers |-> CatEmpty]
    /\ lastWriter = 0

Init ==
    /\ files \in InitialDirs
    /\ now = 1
    /\ ops = 0
    /\ pre = files
    /\ lastOp = [op |-> "init"]
    /\ hist = [n \in Names |-> <<>>]
    /\ kind = [p \in DOMAIN files |-> "category"]
    /\ RenderIdle
    /\ RaceIdle

\* the role under which each file was last written
KindAfter(fs, role) ==
    [p \in DOMAIN fs |-> IF p \in DOMAIN role THEN role[p] ELSE kind[p]]

NoRole == [p \in {} |-> ""]

SaveRoles(fs, category, fault) ==
    LET file_path == get_category_file_path(category)
        backup_path == OverwriteBackupPath(category)
        existed == file_path \in DOMAIN fs
        backupWritten == existed /\ fault # "backup"
        fileWritten == fault \in {"none", "dump"} /\ ~(existed /\ fault = "backup")
    IN [p \in (IF backupWritten THEN {backup_path} ELSE {})
               \cup (IF fileWritten THEN {file_path} ELSE {}) |->
           IF p = file_path THEN "category" ELSE "overwrite"]

BackupRoles(category, t, ok) ==
    IF ok THEN [p \in {TimestampedBackupPath(category, Strftime(t))} |-> "timestamped"]
    ELSE NoRole

\* the run of successful saves that produced the present text of a category file
\* (a save that fails after replacing the backup ends the run at its last member)
HistAfterSave(h, category, prompt_category, ok, fault) ==
    [h EXCEPT ![category] =
        IF ok THEN (IF @ = <<>> THEN <<prompt_category>> ELSE <<Last(@), prompt_category>>)
        ELSE IF fault = "dump" THEN <<>>
        ELSE IF fault = "open" /\ @ # <<>> THEN <<Last(@)>>
        ELSE @]

HistAfterBackup(h, category, t, ok) ==
    [n \in Names |->
        IF ok /\ get_category_file_path(n) = TimestampedBackupPath(category, Strftime(t))
        THEN <<>> ELSE h[n]]

Cuts(prompt_category, fault) ==
    IF fault = "dump" THEN {0, Len(Serialize(prompt_category)) - 1} ELSE {0}

Step(fs, op) ==
    /\ ops < MaxOps
    /\ ops' = ops + 1
    /\ pre' = files
    /\ files' = fs
    /\ lastOp' = op
    /\ UNCHANGED <<now, renderVars, raceVars>>

\* storage.save_category(category, prompt_category)
Save(category, prompt_category, fault, cut) ==
    LET r == save_category(files, category, prompt_category, fault, cut)
    IN /\ fault = "backup" => get_category_file_path(category) \in DOMAIN files
       /\ Step(r.fs, [op |-> "save", category |-> category, data |-> prompt_category,
                      ok |-> r.ok, fault |-> fault])
       /\ kind' = KindAfter(r.fs, SaveRoles(files, category, fault))
       /\ hist' = HistAfterSave(hist, category, prompt_category, r.ok, fault)

\* app.create_backup / storage.backup_category(category)
BackupTimestamped(category, fault) ==
    LET r == backup_category(files, category, now, fault)
    IN /\ fault = "open" => get_category_file_path(category) \in DOMAIN files
       /\ Step(r.fs, [op |-> "backup", category |-> category, at |-> now, ok |-> r.ok])
       /\ kind' = KindAfter(r.fs, BackupRoles(category, now, r.ok))
       /\ hist' = HistAfterBackup(hist, category, now, r.ok)

\* app.update_prompt_category: backup_category, then save_category
Update(category, prompt_category, bfault, fault, cut) ==
    LET b == backup_category(files, category, now, bfault)
        r == save_category(b.fs, category, prompt_category, fault, cut)
    IN /\ bfault = "open" => get_category_file_path(category) \in DOMAIN files
       /\ fault = "backup" => get_category_file_path(category) \in DOMAIN files
       /\ Step(r.fs, [op |-> "update", category |-> category, data |-> prompt_category,
                      at |-> now, backed_up |-> b.ok, ok |-> r.ok, fault |-> fault])
       /\ kind' = [p \in DOMAIN r.fs |->
                     LET sr == SaveRoles(b.fs, category, fault)
                         br == BackupRoles(category, now, b.ok)
                     IN IF p \in DOMAIN sr THEN sr[p]
                        ELSE IF p \in DOMAIN br THEN br[p] ELSE kind[p]]
       /\ hist' = HistAfterSave(HistAfterBackup(hist, category, now, b.ok),
                                category, prompt_category, r.ok, fault)

\* storage.get_category(category)
Load(category) ==
    /\ Step(files, [op |-> "load", category |-> category,
                    result |-> get_category(files, category)])
    /\ UNCHANGED <<kind, hist>>

\* storage.list_categories()
Enumerate ==
    /\ Step(files, [op |-> "enumerate", result |-> list_categories(files)])
    /\ UNCHANGED <<kind, hist>>

\* storage.get_all_prompts()
Summarize ==
    /\ Step(files, [op |-> "summarize", result |-> get_all_prompts(files)])
    /\ UNCHANGED <<kind, hist>>

RequestMappings == {NoMapping, [k \in {<<"a">>} |-> StrVal(<<"X">>)]}

\* storage.test_prompt_rendering(category, template_name, variables)
TestRender(category, template_name, mapping) ==
    \E res \in test_prompt_rendering(files, category, template_name, mapping) :
        /\ Step(files, [op |-> "render", category |-> category,
                        template_name |-> template_name, result |-> res])
        /\ UNCHANGED <<kind, hist>>

\* a second passes on the clock
Tick ==
    /\ now < MaxTime
    /\ now' = now + 1
    /\ UNCHANGED <<files, ops, pre, lastOp, hist, kind, renderVars, raceVars>>

Next ==
    \/ \E c \in Names, d \in Categories, f \in SaveFaults :
          \E k \in Cuts(d, f) : Save(c, d, f, k)
    \/ \E c \in Names, f \in BackupFaults : BackupTimestamped(c, f)
    \/ \E c \in Names, d \in Categories, bf \in BackupFaults, f \in SaveFaults :
          \E k \in Cuts(d, f) : Update(c, d, bf, f, k)
    \/ \E c \in Names : Load(c)
    \/ Enumerate
    \/ Summarize
    \/ \E c \in Names, tn \in {"t1", "t2"}, m \in RequestMappings : TestRender(c, tn, m)
    \/ Tick

Spec == Init /\ [][Next]_vars

(***************************************************************************)
(* Rendering as a function of (content, variables)                         *)
(***************************************************************************)
Alphabet == {"$", "{", "}", "a", "b", "1"}

Contents == UNION {[1..n -> Alphabet] : n \in 0..MaxLen}

Keys == {<<"a">>, <<"b">>}

Values == {StrVal(<<"$", "b">>), IntVal(7)}

Mappings == UNION {[K -> Values] : K \in SUBSET Keys}

StoreIdle ==
    /\ files = EmptyDir
    /\ now = 1
    /\ ops = 0
    /\ pre = EmptyDir
    /\ lastOp = [op |-> "init"]
    /\ hist = [n \in Names |-> <<>>]
    /\ kind = [p \in {} |-> ""]

InitRender ==
    /\ content \in Contents
    /\ variables \in Mappings
    /\ rendering = NoRendering
    /\ StoreIdle
    /\ RaceIdle

\* storage.py 186-206 on a template whose content is `content`
Render ==
    /\ rendering' \in RenderResults(content, variables)
    /\ UNCHANGED <<content, variables, storeVars, raceVars>>

NextRender == Render

SpecRender == InitRender /\ [][NextRender]_vars

(***************************************************************************)
(* Two save_category calls on one name, their file operations interleaved  *)
(***************************************************************************)
RaceName == NameA
RaceFile == get_category_file_path(RaceName)
RaceBackup == OverwriteBackupPath(RaceName)

\* write(text) through a descriptor opened with 'w' whose offset is still 0:
\* bytes another writer has put beyond the end of text stay in the file
WriteAtStart(cur, text) == text \o SubSeq(cur, Len(text) + 1, Len(cur))

InitRace ==
    /\ \E c \in Categories : files = [p \in {RaceFile} |-> Serialize(c)]
    /\ pre = files
    /\ now = 1
    /\ ops = 0
    /\ lastOp = [op |-> "init"]
    /\ hist = [n \in Names |-> <<>>]
    /\ kind = [p \in {RaceFile} |-> "category"]
    /\ RenderIdle
    /\ pc = [w \in Writers |-> "exists"]
    /\ preimage = [w \in Writers |-> <<>>]
    /\ submitted \in [Writers -> Categories]
    /\ lastWriter = 0

RaceFrame == UNCHANGED <<now, ops, pre, lastOp, hist, kind, renderVars, submitted>>

\* storage.py 96: if file_path.exists()
CheckExists(w) ==
    /\ pc[w] = "exists"
    /\ pc' = [pc EXCEPT ![w] = IF RaceFile \in DOMAIN files THEN "open_backup" ELSE "open_file"]
    /\ UNCHANGED <<files, preimage, lastWriter>>
    /\ RaceFrame

\* storage.py 98-99: open(file_path,'r'); open(backup_path,'w') empties the backup
OpenBackup(w) ==
    /\ pc[w] = "open_backup"
    /\ files' = WriteFile(files, RaceBackup, <<>>)
    /\ pc' = [pc EXCEPT ![w] = "read"]
    /\ UNCHANGED <<preimage, lastWriter>>
    /\ RaceFrame

\* storage.py 100: src.read()
ReadPreimage(w) ==
    /\ pc[w] = "read"
    /\ preimage' = [preimage EXCEPT ![w] = files[RaceFile]]
    /\ pc' = [pc EXCEPT ![w] = "write_backup"]
    /\ UNCHANGED <<files, lastWriter>>
    /\ RaceFrame

\* storage.py 100: dst.write(...), flushed when the with block closes dst
WriteBackup(w) ==
    /\ pc[w] = "write_backup"
    /\ files' = WriteFile(files, RaceBackup, WriteAtStart(files[RaceBackup], preimage[w]))
    /\ pc' = [pc EXCEPT ![w] = "open_file"]
    /\ UNCHANGED <<preimage, lastWriter>>
    /\ RaceFrame

\* storage.py 121: open(file_path,'w') empties the category file
OpenFile(w) ==
    /\ pc[w] = "open_file"
    /\ files' = WriteFile(files, RaceFile, <<>>)
    /\ pc' = [pc EXCEPT ![w] = "dump"]
    /\ UNCHANGED <<preimage, lastWriter>>
    /\ RaceFrame

\* storage.py 122-125: json.dump, flushed when the with block closes f; return True
Dump(w) ==
    /\ pc[w] = "dump"
    /\ files' = WriteFile(files, RaceFile,
                          WriteAtStart(files[RaceFile], Serialize(submitted[w])))
    /\ lastWriter' = w
    /\ pc' = [pc EXCEPT ![w] = "done"]
    /\ UNCHANGED preimage
    /\ RaceFrame

NextRace ==
    \E w \in Writers :
        \/ CheckExists(w)
        \/ OpenBackup(w)
        \/ ReadPreimage(w)
        \/ WriteBackup(w)
        \/ OpenFile(w)
        \/ Dump(w)

SpecRace == InitRace /\ [][NextRace]_vars

(***************************************************************************)
(* Properties                                                              *)
(***************************************************************************)
CategoryFileOf(op) == get_category_file_path(op.category)

\* C1: enumerate() returns, sorted and without duplicates, exactly the names
\* that have a persisted category file, and never a name that only denotes a
\* backup file.
C1_EnumerateOnlyCategories ==
    lastOp.op = "enumerate" =>
        LET r == lastOp.result
        IN /\ \A i, j \in 1..Len(r) : i < j => StrLess(r[i], r[j])
           /\ Range(r) = {Stem(p) : p \in {q \in GlobJson(files) : kind[q] = "category"}}
           /\ \A i \in 1..Len(r) :
                 kind[get_category_file_path(r[i])] \notin {"timestamped", "overwrite"}

\* C2: after save(name, C) returns true, load(name) returns a category equal
\* to C in version, category, description and every template, field by field.
C2_RoundTrip ==
    (lastOp.op = "save" /\ lastOp.ok) =>
        LET loaded == get_category(files, lastOp.category)
            C == lastOp.data
        IN /\ loaded # NoCategory
           /\ loaded.version = C.version
           /\ loaded.category = C.category
           /\ loaded.description = C.description
           /\ Len(loaded.templates) = Len(C.templates)
           /\ \A i \in 1..Len(C.templates) :
                 /\ loaded.templates[i].name = C.templates[i].name
                 /\ loaded.templates[i].template.content = C.templates[i].template.content
                 /\ loaded.templates[i].template.description = C.templates[i].template.description
                 /\ loaded.templates[i].template.variables = C.templates[i].template.variables
                 /\ loaded.templates[i].template.model = C.templates[i].template.model
                 /\ loaded.templates[i].template.max_tokens = C.templates[i].template.max_tokens

C2_Witness ==
    /\ lastOp.op = "save"
    /\ lastOp.ok
    /\ lastOp.data.category # lastOp.category
    /\ \E i \in 1..Len(lastOp.data.templates) :
          /\ lastOp.data.templates[i].template.description = None
          /\ lastOp.data.templates[i].template.model = None
          /\ lastOp.data.templates[i].template.max_tokens = None

\* C3: after two successful saves in a row on one name the overwrite-backup
\* holds the text the category file had before the later save and loads as the
\* category of the earlier save; the copy is made before the new text is
\* written; a save to a name without a file creates no overwrite-backup.
C3_BackupBeforeOverwrite ==
    /\ \A n \in Names :
          Len(hist[n]) = 2 =>
             /\ OverwriteBackupPath(n) \in DOMAIN files
             /\ files[OverwriteBackupPath(n)] = Serialize(hist[n][1])
             /\ LoadFromText(n, files[OverwriteBackupPath(n)]) = hist[n][1]
    /\ lastOp.op = "save" =>
          LET file_path == CategoryFileOf(lastOp)
              backup_path == OverwriteBackupPath(lastOp.category)
          IN IF file_path \in DOMAIN pre
             THEN (lastOp.ok \/ lastOp.fault \in {"open", "dump"}) =>
                     /\ backup_path \in DOMAIN files
                     /\ files[backup_path] = pre[file_path]
             ELSE /\ backup_path \in DOMAIN files <=> backup_path \in DOMAIN pre
                  /\ backup_path \in DOMAIN pre => files[backup_path] = pre[backup_path]

C3_Witness ==
    /\ lastOp.op = "save"
    /\ lastOp.ok
    /\ Len(hist[lastOp.category]) = 2
    /\ hist[lastOp.category][1] # hist[lastOp.category][2]

\* C6: for a name with no category file or with a malformed one, load returns
\* the absent result and a test render returns a not-found failure (as it does
\* for a template name the category lacks); neither changes any file.
Malformed(fs, path) == path \in DOMAIN fs /\ ~json_load(fs[path]).ok

C6_FailuresAreValues ==
    /\ lastOp.op = "load" =>
          /\ files = pre
          /\ (CategoryFileOf(lastOp) \notin DOMAIN files \/ Malformed(files, CategoryFileOf(lastOp)))
                => lastOp.result = NoCategory
    /\ lastOp.op = "render" =>
          /\ files = pre
          /\ (CategoryFileOf(lastOp) \notin DOMAIN files \/ Malformed(files, CategoryFileOf(lastOp)))
                => (~lastOp.result.success /\ lastOp.result.error = "Category not found")
          /\ (/\ get_category(files, lastOp.category) # NoCategory
              /\ \A i \in 1..Len(get_category(files, lastOp.category).templates) :
                    get_category(files, lastOp.category).templates[i].name # lastOp.template_name)
                => (~lastOp.result.success
                    /\ lastOp.result.error = "Template not found in category")

C6_Witness ==
    /\ lastOp.op \in {"load", "render"}
    /\ Malformed(files, CategoryFileOf(lastOp))

\* C7: backupTimestamped(name) returns false and changes nothing when name has
\* no category file; when it returns true the file named from name and the
\* second it ran in holds the category file's text, the category file is
\* unchanged and so is every other file that existed.
C7_TimestampedBackup ==
    lastOp.op = "backup" =>
        LET src == lastOp.category \o <<".json">>
            target == lastOp.category \o <<"_", Stamps[lastOp.at], ".backup", ".json">>
        IN /\ src \notin DOMAIN pre => (~lastOp.ok /\ files = pre)
           /\ lastOp.ok =>
                 /\ src \in DOMAIN pre
                 /\ target \in DOMAIN files
                 /\ files[target] = pre[src]
                 /\ src \in DOMAIN files
                 /\ files[src] = pre[src]
                 /\ DOMAIN files = DOMAIN pre \cup {target}
                 /\ \A p \in DOMAIN pre \ {target} : files[p] = pre[p]

C7_Witness ==
    /\ lastOp.op = "backup"
    /\ lastOp.ok
    /\ \E t \in 1..MaxTime :
          /\ t # lastOp.at
          /\ TimestampedBackupPath(lastOp.category, Strftime(t)) \in DOMAIN pre
          /\ kind[TimestampedBackupPath(lastOp.category, Strftime(t))] = "timestamped"

BackedByTimestamp(p) == p \in DOMAIN kind /\ kind[p] = "timestamped"

\* C8: once a backup file exists, no load, summarize or render reads it back
\* as category data and no save or update changes it, except that a save
\* replaces the overwrite-backup of its own category and a timestamped backup
\* taken in the same second replaces its own target.
C8_BackupsWriteOnce ==
    [][ /\ \A p \in DOMAIN files :
             (/\ kind[p] = "timestamped"
              /\ ~(/\ lastOp'.op \in {"backup", "update"}
                   /\ p = TimestampedBackupPath(lastOp'.category, Strftime(lastOp'.at))))
                => (p \in DOMAIN files' /\ files'[p] = files[p])
        /\ \A p \in DOMAIN files :
             (/\ kind[p] = "overwrite"
              /\ ~(/\ lastOp'.op \in {"save", "update"}
                   /\ p = OverwriteBackupPath(lastOp'.category)))
                => (p \in DOMAIN files' /\ files'[p] = files[p])
        /\ (lastOp'.op = "load" /\ lastOp'.result # NoCategory)
                => ~BackedByTimestamp(CategoryFileOf(lastOp'))
        /\ (lastOp'.op = "render" /\ lastOp'.result.success)
                => ~BackedByTimestamp(CategoryFileOf(lastOp'))
        /\ lastOp'.op = "summarize"
                => \A i \in 1..Len(lastOp'.result.categories) :
                      ~BackedByTimestamp(
                          get_category_file_path(lastOp'.result.categories[i].name))
      ]_vars

\* C9: whenever the PUT update reports success, a backup holding the content
\* the category had immediately before the update was created during it, the
\* first update that creates the category included.
C9_EveryUpdateBacksUp ==
    (lastOp.op = "update" /\ lastOp.ok) =>
        /\ CategoryFileOf(lastOp) \in DOMAIN pre
        /\ \E p \in {OverwriteBackupPath(lastOp.category),
                     TimestampedBackupPath(lastOp.category, Strftime(lastOp.at))} :
              /\ p \in DOMAIN files
              /\ files[p] = pre[CategoryFileOf(lastOp)]

\* C9 (amended): whenever the PUT update of a category that already has a file
\* gets as far as writing (and so whenever it reports success), the
\* overwrite-backup holds the text the file had before the update, and so does
\* the timestamped backup unless that step returned false; an update that
\* creates the category reports success with no backup created.
C9_UpdateOfExistingBacksUp ==
    lastOp.op = "update" =>
        LET file_path == CategoryFileOf(lastOp)
            backup_path == OverwriteBackupPath(lastOp.category)
            stamped == TimestampedBackupPath(lastOp.category, Strftime(lastOp.at))
        IN IF file_path \in DOMAIN pre
           THEN /\ (lastOp.ok \/ lastOp.fault \in {"open", "dump"}) =>
                      /\ backup_path \in DOMAIN files
                      /\ files[backup_path] = pre[file_path]
                /\ lastOp.backed_up =>
                      /\ stamped \in DOMAIN files
                      /\ files[stamped] = pre[file_path]
           ELSE /\ ~lastOp.backed_up
                /\ lastOp.ok => DOMAIN files = DOMAIN pre \cup {file_path}

C9_Witness ==
    /\ lastOp.op = "update"
    /\ lastOp.ok
    /\ ~lastOp.backed_up
    /\ CategoryFileOf(lastOp) \in DOMAIN pre
    /\ pre[CategoryFileOf(lastOp)] # files[CategoryFileOf(lastOp)]

(***************************************************************************)
(* Rendering, stated position by position                                  *)
(***************************************************************************)
\* number of "$" standing immediately before position i
DollarsBefore(text, i) ==
    CHOOSE k \in 0..(i - 1) :
        /\ \A j \in (i - k)..(i - 1) : text[j] = "$"
        /\ (i - k - 1 >= 1) => text[i - k - 1] # "$"

\* a "$" that is not the second half of a "$$"
Live(text, i) == text[i] = "$" /\ DollarsBefore(text, i) % 2 = 0

\* length of the identifier that starts at position i (0: none does)
IdLen(text, i) ==
    IF i <= Len(text) /\ text[i] \in Letters
    THEN CHOOSE n \in 1..(Len(text) - i + 1) :
            /\ \A j \in i..(i + n - 1) : text[j] \in Letters \cup Digits
            /\ (i + n <= Len(text)) => text[i + n] \notin Letters \cup Digits
    ELSE 0

IsNamed(text, i) == Live(text, i) /\ IdLen(text, i + 1) > 0

IsBraced(text, i) ==
    /\ Live(text, i)
    /\ i + 1 <= Len(text)
    /\ text[i + 1] = "{"
    /\ IdLen(text, i + 2) > 0
    /\ i + 2 + IdLen(text, i + 2) <= Len(text)
    /\ text[i + 2 + IdLen(text, i + 2)] = "}"

IsEscape(text, i) == Live(text, i) /\ i + 1 <= Len(text) /\ text[i + 1] = "$"

PlaceholderId(text, i) ==
    IF IsNamed(text, i) THEN SubSeq(text, i + 1, i + IdLen(text, i + 1))
    ELSE SubSeq(text, i + 2, i + 1 + IdLen(text, i + 2))

Span(text, i) ==
    IF IsNamed(text, i) THEN 1 + IdLen(text, i + 1)
    ELSE IF IsBraced(text, i) THEN 3 + IdLen(text, i + 2)
    ELSE IF IsEscape(text, i) THEN 2
    ELSE 1

PlaceholderIds(text) ==
    {PlaceholderId(text, i) : i \in {j \in 1..Len(text) : IsNamed(text, j) \/ IsBraced(text, j)}}

ExpectedAt(text, mapping, i) ==
    IF Live(text, i)
    THEN IF IsNamed(text, i) \/ IsBraced(text, i)
         THEN IF PlaceholderId(text, i) \in DOMAIN mapping
              THEN Str(mapping[PlaceholderId(text, i)])
              ELSE SubSeq(text, i, i + Span(text, i) - 1)
         ELSE <<"$">>
    ELSE IF \E j \in 1..(i - 1) : Live(text, j) /\ i < j + Span(text, j)
         THEN <<>>
         ELSE <<text[i]>>

ExpectedText(text, mapping) ==
    Flatten([i \in 1..Len(text) |-> ExpectedAt(text, mapping, i)])

\* C4: render succeeds; provided placeholders are replaced by the string form
\* of their values, unprovided ones stay as written, $$ becomes $, other text
\* is unchanged; missing is the set of placeholder identifiers minus the keys.
C4_Render ==
    rendering # NoRendering =>
        /\ rendering.success
        /\ rendering.rendered_prompt = ExpectedText(content, variables)
        /\ Range(rendering.missing_variables) = PlaceholderIds(content) \ DOMAIN variables

C4_Witness ==
    /\ rendering # NoRendering
    /\ rendering.success
    /\ rendering.missing_variables # <<>>
    /\ PlaceholderIds(content) \cap DOMAIN variables # {}

\* identifiers of ids that are not keys, in the order ids has them
RECURSIVE Without(_, _)
Without(ids, keys) ==
    IF ids = <<>> THEN <<>>
    ELSE (IF Head(ids) \in keys THEN <<>> ELSE <<Head(ids)>>) \o Without(Tail(ids), keys)

\* C5: the lists render reports (missing variables, template identifiers) hold
\* the identifiers in order of first appearance in content, each once.
C5_FirstAppearanceOrder ==
    rendering # NoRendering =>
        /\ rendering.template_variables = get_identifiers(content)
        /\ rendering.missing_variables = Without(get_identifiers(content), DOMAIN variables)

\* C10: once two concurrent saves on one name have both returned true, the
\* category file holds exactly the serialization submitted by the writer whose
\* write came last, and the overwrite-backup holds a complete serialization of
\* what the category file held before one of the two writes.
C10_LastWriterWins ==
    (\A w \in Writers : pc[w] = "done") =>
        /\ files[RaceFile] = Serialize(submitted[lastWriter])
        /\ RaceBackup \in DOMAIN files
        /\ files[RaceBackup] \in {pre[RaceFile]} \cup {Serialize(submitted[w]) : w \in Writers}


====
